---- MODULE Spec2Model ----
(***************************************************************************)
(* A model of preprocessor/ljspeech.py: the Preprocessor that turns a      *)
(* speech corpus into cached per-utterance artifacts, corpus statistics    *)
(* and a train/validation split.                                           *)
(*                                                                         *)
(* Numbers.  The program computes with floating point; the model computes  *)
(* with exact reals of the form (n/d)*sqrt(r), r a square-free positive    *)
(* integer, which is closed under everything the program does to energy    *)
(* values (mean, variance, square root, subtraction, division).            *)
(***************************************************************************)
EXTENDS Integers, Sequences, FiniteSets, TLC

\* ---------------------------------------------------------------- bounds
MaxRecords == 2      \* lines of metadata.csv
MaxSamples == 5      \* samples of a trimmed waveform
MaxPhones  == 1      \* phoneme tokens of an utterance
MaxRuns    == 2      \* runs of the program over one output directory
MaxP       == 3      \* phoneme_count of the prior generator
MaxM       == 3      \* mel_count of the prior generator
MaxScale   == 2      \* scaling_factor of the prior generator
MaxEnergy  == 5      \* values of an energy array given to remove_outlier

\* ------------------------------------------------------ program constants
Hop  == 2            \* preprocessing.stft.hop_length
NMel == 1            \* preprocessing.mel.n_mel_channels
Unbound == -1        \* a local variable that was never assigned

\* ------------------------------------------------------------- arithmetic
Abs(i) == IF i < 0 THEN -i ELSE i

RECURSIVE GCD(_, _)
GCD(a, b) == IF b = 0 THEN a ELSE GCD(b, a % b)

\* the largest s with s*s dividing k (k >= 1)
SqPart(k) == CHOOSE s \in 1..k : /\ k % (s * s) = 0
                                 /\ \A t \in (s + 1)..k : k % (t * t) # 0

\* d = 0 marks the values that are not finite: nan, +inf, -inf
NaN    == [n |-> 0, d |-> 0, r |-> 1]
PosInf == [n |-> 1, d |-> 0, r |-> 1]
NegInf == [n |-> -1, d |-> 0, r |-> 1]

\* the number (n/d)*sqrt(r) in normal form; d # 0, r >= 1
Norm(n, d, r) ==
    LET s  == SqPart(r)
        n1 == IF d < 0 THEN -(n * s) ELSE n * s
        d1 == Abs(d)
        g  == GCD(Abs(n1), d1)
    IN  IF n1 = 0 THEN [n |-> 0, d |-> 1, r |-> 1]
        ELSE [n |-> n1 \div g, d |-> d1 \div g, r |-> r \div (s * s)]

Rat(n, d) == Norm(n, d, 1)
IntNum(i) == [n |-> i, d |-> 1, r |-> 1]
Zero == IntNum(0)
One  == IntNum(1)

IsNaN(x) == x.d = 0

\* sums are closed for numbers over the same radical (or zero)
NumAdd(x, y) ==
    IF x.n = 0 THEN y
    ELSE IF y.n = 0 THEN x
    ELSE IF x.r = y.r THEN Norm(x.n * y.d + y.n * x.d, x.d * y.d, x.r)
    ELSE NaN
NumNeg(x) == [x EXCEPT !.n = -x.n]
NumSub(x, y) == NumAdd(x, NumNeg(y))
NumMul(x, y) == Norm(x.n * y.n, x.d * y.d, x.r * y.r)
\* 1/sqrt(r) = sqrt(r)/r
NumDiv(x, y) == Norm(x.n * y.d, x.d * y.n * y.r, x.r * y.r)
\* square root of a non-negative rational n/d = sqrt(n*d)/d
NumSqrt(x) == IF x.n = 0 THEN Zero ELSE Norm(1, x.d, x.n * x.d)
NumLess(x, y) ==
    IF x.d = 0 THEN x.n < 0 /\ y # x
    ELSE IF y.d = 0 THEN y.n > 0
    ELSE NumSub(x, y).n < 0
NumMin(x, y) == IF NumLess(y, x) THEN y ELSE x
NumMax(x, y) == IF NumLess(x, y) THEN y ELSE x

\* ---------------------------------------------------------------- helpers
Range(s) == {s[i] : i \in DOMAIN s}

RECURSIVE SeqSum(_)
SeqSum(s) == IF s = <<>> THEN Zero ELSE NumAdd(Head(s), SeqSum(Tail(s)))

RECURSIVE SeqSumSq(_)
SeqSumSq(s) ==
    IF s = <<>> THEN Zero
    ELSE NumAdd(NumMul(Head(s), Head(s)), SeqSumSq(Tail(s)))

RECURSIVE SeqMin(_)
SeqMin(s) == IF Len(s) = 1 THEN s[1] ELSE NumMin(s[1], SeqMin(Tail(s)))

RECURSIVE SeqMax(_)
SeqMax(s) == IF Len(s) = 1 THEN s[1] ELSE NumMax(s[1], SeqMax(Tail(s)))

\* s[: k] of Python, 0 <= k
Take(s, k) == SubSeq(s, 1, IF k < Len(s) THEN k ELSE Len(s))
\* s[k :] of Python, 0 <= k
Drop(s, k) == SubSeq(s, (IF k < Len(s) THEN k ELSE Len(s)) + 1, Len(s))

RECURSIVE Concat(_)
Concat(ss) == IF ss = <<>> THEN <<>> ELSE Head(ss) \o Concat(Tail(ss))

\* ascending sort (insertion of the minimum), as np.percentile sorts
RECURSIVE SortNum(_)
SortNum(s) ==
    IF s = <<>> THEN <<>>
    ELSE LET m == SeqMin(s)
             i == CHOOSE j \in DOMAIN s : s[j] = m
         IN  <<m>> \o SortNum(SubSeq(s, 1, i - 1) \o SubSeq(s, i + 1, Len(s)))

Perms(n) == {p \in [1..n -> 1..n] : \A i, j \in 1..n : p[i] = p[j] => i = j}

\* ------------------------------------------------------------------ state
VARIABLES
    corpus,     \* metadata.csv and wavs/: the records, in file order
    cfg,        \* the configuration the Preprocessor is constructed with
    disk,       \* the output directory
    run,        \* the number of the current run of the program
    pc,         \* where the current run stands
    err,        \* the uncaught exception that ended the run, "" if none
    val_prior,  \* self.val_prior
    idx,        \* the record of the scan loop (1-based)
    loc,        \* the local variables of process_utterance
    acc,        \* the local variables of build_from_path
    rng,        \* the permutations the seeded generator gives, once known
    ret,        \* the last tuple process_utterance returned
    norm,       \* the last call of normalize: arguments, files before, result
    hist,       \* what each completed run wrote: manifests and stats
    killed,     \* the stages at which earlier runs were interrupted
    bb          \* beta_binomial_prior_distribution called on its own

vars == <<corpus, cfg, disk, run, pc, err, val_prior, idx, loc, acc, rng,
          ret, norm, hist, killed, bb>>

\* -------------------------------------------------- external collaborators
\* What the collaborators return is an input of the program.  An utterance
\* is given by what they return for it: phone is grapheme_to_phoneme's
\* output for the transcript, nsamp the length of the range librosa's trim
\* keeps, voiced whether the pitch extractor finds voiced frames.
Speaker == "LJSpeech"
Tokens  == {"AH", ","}

\* the decoded, trimmed wave: its content is fixed by (n, voiced)
Wave(rec) == [n |-> rec.nsamp, voiced |-> rec.voiced]

\* text_to_sequence: one symbol id per token
SymbolId(t) == IF t = "sp" THEN 2 ELSE 1
TextToSequence(phones) == [i \in 1..Len(phones) |-> SymbolId(phones[i])]

\* TorchSTFT(wav, return_energy=True): frame-synchronous mel (channels x
\* frames) and energy; cfg.extraMel is the frame the windowing may add
StftFrames(wav) == (wav.n \div Hop) + cfg.extraMel
TorchSTFT(wav) ==
    [mel    |-> [c \in 1..NMel |->
                   [j \in 1..StftFrames(wav) |-> IntNum(j - wav.n - c)]],
     energy |-> [j \in 1..StftFrames(wav) |-> IntNum(j * wav.n)]]

\* get_pitch(wav, mel): f0 per frame, 0 where unvoiced
PitchFrames(wav) == (wav.n \div Hop) + cfg.extraF0
GetPitch(wav) ==
    [j \in 1..PitchFrames(wav) |->
        IF wav.voiced /\ j % 2 = 1 THEN IntNum(j + wav.n) ELSE Zero]

\* ------------------------------------------------------- pure functions
\* lines 234-236: bracket-wrap the tokens, collapse a token that is empty
\* or one punctuation character to sp, join
Phones(phone) ==
    LET wrapped == IF phone = <<>> THEN <<"">> ELSE phone
    IN  [i \in 1..Len(wrapped) |->
            IF wrapped[i] \in {"", ","} THEN "sp" ELSE wrapped[i]]

\* "|".join([basename, speaker, phones, raw_text]); the transcript is
\* represented by the phonemes it is pronounced with
Info(rec) == <<rec.basename, Speaker, Phones(rec.phone), rec.phone>>
\* m.split("|")[0]
BasenameOf(line) == line[1]

\* the frame-major file of a channels x frames matrix, and back (.T)
ToFrameMajor(m) ==
    [j \in 1..Len(m[1]) |-> [c \in 1..NMel |-> m[c][j]]]
ToChannelMajor(f) ==
    [c \in 1..NMel |-> [j \in 1..Len(f) |-> f[j][c]]]
\* mel_spectrogram.shape[1]
Shape1(m) == Len(m[1])

\* np.percentile(values, 25 * q4), linear interpolation, on sorted values
Percentile(sorted, q4) ==
    LET pos4 == q4 * (Len(sorted) - 1)
        lo   == pos4 \div 4
        fr   == pos4 % 4
    IN  IF fr = 0 THEN sorted[lo + 1]
        ELSE NumAdd(sorted[lo + 1],
                    NumMul(Rat(fr, 4), NumSub(sorted[lo + 2], sorted[lo + 1])))

RECURSIVE BetweenInclusive(_, _, _)
\* variant: the bounds of the rule are not strict
BetweenInclusive(values, lower, upper) ==
    IF values = <<>> THEN <<>>
    ELSE (IF ~NumLess(Head(values), lower) /\ ~NumLess(upper, Head(values))
          THEN <<Head(values)>> ELSE <<>>)
         \o BetweenInclusive(Tail(values), lower, upper)

RECURSIVE Between(_, _, _)
Between(values, lower, upper) ==
    IF values = <<>> THEN <<>>
    ELSE (IF NumLess(lower, Head(values)) /\ NumLess(Head(values), upper)
          THEN <<Head(values)>> ELSE <<>>)
         \o Between(Tail(values), lower, upper)

\* remove_outlier; the percentiles of an empty array are nan and keep nothing
remove_outlier(values) ==
    IF values = <<>> THEN <<>>
    ELSE LET sorted == SortNum(values)
             p25    == Percentile(sorted, 1)
             p75    == Percentile(sorted, 3)
             iqr15  == NumMul(Rat(3, 2), NumSub(p75, p25))
         IN  Between(values, NumSub(p25, iqr15), NumAdd(p75, iqr15))

\* ---- beta_binomial_prior_distribution
RECURSIVE Rise(_, _)
\* a (a+1) ... (a+k-1)
Rise(a, k) == IF k = 0 THEN 1 ELSE (a + k - 1) * Rise(a, k - 1)

RECURSIVE Choose(_, _)
Choose(n, k) ==
    IF k = 0 \/ k = n THEN 1 ELSE Choose(n - 1, k - 1) + Choose(n - 1, k)

\* betabinom(n, a, b).pmf(k), 0 <= k <= n
BetaBinomPmf(n, a, b, k) ==
    Rat(Choose(n, k) * Rise(a, k) * Rise(b, n - k), Rise(a + b, n))

\* variant: the two shape parameters are exchanged
PriorRowSwapped(P, M, scaling_factor, i) ==
    LET a == scaling_factor * (M + 1 - i)
        b == scaling_factor * i
    IN  [x \in 1..P |-> BetaBinomPmf(P, a, b, x - 1)]

\* one iteration of the loop of lines 217-221
PriorRow(P, M, scaling_factor, i) ==
    LET a == scaling_factor * i
        b == scaling_factor * (M + 1 - i)
    IN  [x \in 1..P |-> BetaBinomPmf(P, a, b, x - 1)]

beta_binomial_prior_distribution(phoneme_count, mel_count, scaling_factor) ==
    [i \in 1..mel_count |->
        PriorRow(phoneme_count, mel_count, scaling_factor, i)]

\* ---- StandardScaler: count, sum and sum of squares of what it was fed
NewScaler == [n |-> 0, s1 |-> Zero, s2 |-> Zero]
\* partial_fit, lines 82-84
partial_fit(scaler, value) ==
    IF Len(value) > 0
    THEN [n  |-> scaler.n + Len(value),
          s1 |-> NumAdd(scaler.s1, SeqSum(value)),
          s2 |-> NumAdd(scaler.s2, SeqSumSq(value))]
    ELSE scaler
ScalerMean(scaler) == NumDiv(scaler.s1, IntNum(scaler.n))
ScalerVar(scaler) ==
    NumSub(NumDiv(scaler.s2, IntNum(scaler.n)),
           NumMul(ScalerMean(scaler), ScalerMean(scaler)))
\* scale_: the standard deviation, 1 where the variance is 0
ScalerScale(scaler) ==
    IF ScalerVar(scaler).n = 0 THEN One ELSE NumSqrt(ScalerVar(scaler))

\* variant: the mean is subtracted but the division by std is left out
NormalizeValuesNoScale(values, mean, std) ==
    [j \in 1..Len(values) |-> NumSub(values[j], mean)]

\* ---- normalize (lines 327-338)
NormalizeValues(values, mean, std) ==
    [j \in 1..Len(values) |-> NumDiv(NumSub(values[j], mean), std)]

\* os.listdir: the files in some order
RECURSIVE Listing(_)
Listing(S) ==
    IF S = {} THEN <<>>
    ELSE LET x == CHOOSE y \in S : TRUE IN <<x>> \o Listing(S \ {x})

\* the loop over the listing; st = [dir, min, max, writes, err]
RECURSIVE NormalizeLoop(_, _, _, _)
NormalizeLoop(files, st, mean, std) ==
    IF files = <<>> \/ st.err # "" THEN st
    ELSE LET f      == Head(files)
             values == NormalizeValues(st.dir[f], mean, std)
             saved  == [st EXCEPT !.dir[f] = values,
                                  !.writes[f] = @ + 1]
         IN  IF values = <<>>
             THEN [saved EXCEPT !.err = "ValueError@335"]
             ELSE NormalizeLoop(Tail(files),
                     [saved EXCEPT !.max = NumMax(st.max, SeqMax(values)),
                                   !.min = NumMin(st.min, SeqMin(values))],
                     mean, std)

\* lines 328-329: the running extremes start at the largest and the smallest
\* float64, which every energy value lies strictly between
FloatMax == PosInf
FloatMin == NegInf

normalize(dir, mean, std) ==
    NormalizeLoop(Listing(DOMAIN dir),
                  [dir |-> dir, min |-> FloatMax, max |-> FloatMin,
                   writes |-> [f \in DOMAIN dir |-> 0], err |-> ""],
                  mean, std)

\* ------------------------------------------------------- process_utterance
\* Files of one artifact directory: a function from basenames to contents.
Put(dir, b, v) == (b :> v) @@ dir

NewLoc ==
    [phones |-> <<>>, text |-> <<>>, wav |-> [n |-> 0, voiced |-> FALSE],
     duration |-> Unbound, mel |-> [c \in 1..NMel |-> <<>>], melHit |-> FALSE,
     energy |-> <<>>, f0 |-> <<>>, attn_prior |-> <<>>,
     calls |-> {}, saved |-> {}]

\* a stage took its cache-miss branch: what it invoked and what it saved
Miss(l, callee, files) ==
    [l EXCEPT !.calls = @ \cup {callee}, !.saved = @ \cup files]

\* load_wav (lines 205-211): the trimmed data and int((hi - lo) / hop_length)
load_wav(rec) == [data |-> Wave(rec), duration |-> rec.nsamp \div Hop]

\* Each stage maps s = [disk, loc, err] to the state after it.
\* lines 233-244
TextStage(s, rec) ==
    LET b      == rec.basename
        phones == Phones(rec.phone)
    IN  IF b \notin DOMAIN s.disk.text
        THEN LET text == TextToSequence(phones)
             IN  [s EXCEPT !.disk.text = Put(@, b, text),
                           !.loc = [Miss(@, "text_to_sequence", {"text"})
                                       EXCEPT !.text = text,
                                              !.phones = phones]]
        ELSE [s EXCEPT !.loc.text = s.disk.text[b], !.loc.phones = phones]

\* lines 247-261; librosa.util.normalize takes the maximum of the samples
\* and raises on an empty array
WavStage(s, rec) ==
    LET b == rec.basename
    IN  IF b \notin DOMAIN s.disk.wav
        THEN LET w == load_wav(rec)
             IN  IF w.data.n = 0
                 THEN [s EXCEPT !.loc = [Miss(@, "load_wav", {})
                                            EXCEPT !.wav = w.data,
                                                   !.duration = w.duration],
                                !.err = "ValueError@254"]
                 ELSE [s EXCEPT !.disk.wav = Put(@, b, w.data),
                                !.loc = [Miss(@, "load_wav", {"wav"})
                                            EXCEPT !.wav = w.data,
                                                   !.duration = w.duration]]
        ELSE [s EXCEPT !.loc.wav = s.disk.wav[b]]

\* lines 264-276 and 279: the mel half of the mel/energy stage
MelStage(s, rec) ==
    LET b == rec.basename
    IN  IF b \notin DOMAIN s.disk.mel
        THEN IF s.loc.duration = Unbound
             THEN [s EXCEPT !.err = "UnboundLocalError@270"]
             ELSE LET out    == TorchSTFT(s.loc.wav)
                      mel    == [c \in 1..NMel |->
                                    Take(out.mel[c], s.loc.duration)]
                      energy == Take(out.energy, s.loc.duration)
                  IN  [s EXCEPT !.disk.mel = Put(@, b, ToFrameMajor(mel)),
                                !.loc = [Miss(@, "TorchSTFT", {"mel"})
                                            EXCEPT !.mel = mel,
                                                   !.energy = energy,
                                                   !.melHit = FALSE]]
        ELSE [s EXCEPT !.loc.mel = ToChannelMajor(s.disk.mel[b]),
                       !.loc.melHit = TRUE]

\* lines 277 and 280: the energy half, in the branch the mel file chose
EnergyStage(s, rec) ==
    LET b == rec.basename
    IN  IF ~s.loc.melHit
        THEN [s EXCEPT !.disk.energy = Put(@, b, s.loc.energy),
                       !.loc.saved = @ \cup {"energy"}]
        ELSE IF b \in DOMAIN s.disk.energy
             THEN [s EXCEPT !.loc.energy = s.disk.energy[b]]
             ELSE [s EXCEPT !.err = "FileNotFoundError@280"]

\* variant: the pitch track is saved without the cut to the duration
F0StageNoCut(s, rec) ==
    LET b == rec.basename
    IN  IF b \notin DOMAIN s.disk.f0
        THEN IF s.loc.duration = Unbound
             THEN [s EXCEPT !.err = "UnboundLocalError@286"]
             ELSE LET f0 == GetPitch(s.loc.wav)
                  IN  [s EXCEPT !.disk.f0 = Put(@, b, f0),
                                !.loc = [Miss(@, "get_pitch", {"f0"})
                                            EXCEPT !.f0 = f0]]
        ELSE [s EXCEPT !.loc.f0 = s.disk.f0[b]]

\* lines 284-290
F0Stage(s, rec) ==
    LET b == rec.basename
    IN  IF b \notin DOMAIN s.disk.f0
        THEN IF s.loc.duration = Unbound
             THEN [s EXCEPT !.err = "UnboundLocalError@286"]
             ELSE LET f0 == Take(GetPitch(s.loc.wav), s.loc.duration)
                  IN  [s EXCEPT !.disk.f0 = Put(@, b, f0),
                                !.loc = [Miss(@, "get_pitch", {"f0"})
                                            EXCEPT !.f0 = f0]]
        ELSE [s EXCEPT !.loc.f0 = s.disk.f0[b]]

\* variant: the prior is generated and saved whether or not its file exists
PriorStageUngated(s, rec) ==
    LET b == rec.basename
        attn_prior == beta_binomial_prior_distribution(
                          Shape1(s.loc.mel), Len(s.loc.text), cfg.scale)
    IN  [s EXCEPT !.disk.attn_prior = Put(@, b, attn_prior),
                  !.loc = [Miss(@, "beta_binomial_prior_distribution",
                                {"attn_prior"})
                              EXCEPT !.attn_prior = attn_prior]]

\* lines 293-301
PriorStage(s, rec) ==
    LET b == rec.basename
    IN  IF b \notin DOMAIN s.disk.attn_prior
        THEN LET attn_prior == beta_binomial_prior_distribution(
                                   Shape1(s.loc.mel), Len(s.loc.text),
                                   cfg.scale)
             IN  [s EXCEPT !.disk.attn_prior = Put(@, b, attn_prior),
                           !.loc = [Miss(@, "beta_binomial_prior_distribution",
                                         {"attn_prior"})
                                       EXCEPT !.attn_prior = attn_prior]]
        ELSE [s EXCEPT !.loc.attn_prior = s.disk.attn_prior[b]]

\* variant: the filtered energy sample is saved over the energy file
ReturnStageFiltering(s, rec) ==
    IF Shape1(s.loc.mel) = 0 THEN [s EXCEPT !.err = "ValueError@309"]
    ELSE [s EXCEPT !.disk.energy =
                      Put(@, rec.basename, remove_outlier(s.loc.energy))]

\* lines 303-311; np.min over the frames of a mel without frames raises
ReturnStage(s, rec) ==
    IF Shape1(s.loc.mel) = 0 THEN [s EXCEPT !.err = "ValueError@309"] ELSE s

ReturnValue(s, rec) ==
    [info   |-> Info(rec),
     f0     |-> s.loc.f0,
     energy |-> remove_outlier(s.loc.energy),
     n_mel  |-> Shape1(s.loc.mel),
     n_wav  |-> s.loc.wav.n,
     m_min  |-> [c \in 1..NMel |-> SeqMin(s.loc.mel[c])],
     m_max  |-> [c \in 1..NMel |-> SeqMax(s.loc.mel[c])]]

AndThen(s, Stage(_, _), rec) == IF s.err = "" THEN Stage(s, rec) ELSE s

\* process_utterance as one call: the stages in order, up to the first raise
process_utterance(d, rec) ==
    LET s0 == [disk |-> d, loc |-> NewLoc, err |-> ""]
        s1 == TextStage(s0, rec)
        s2 == AndThen(s1, WavStage, rec)
        s3 == AndThen(s2, MelStage, rec)
        s4 == AndThen(s3, EnergyStage, rec)
        s5 == AndThen(s4, F0Stage, rec)
        s6 == AndThen(s5, PriorStage, rec)
    IN  AndThen(s6, ReturnStage, rec)

\* --------------------------------------------------------- build_from_path
\* lines 72-80
NewAcc ==
    [out |-> <<>>, train |-> <<>>, val |-> <<>>, max_seq_len |-> 0,
     mel_min |-> [c \in 1..NMel |-> PosInf],
     mel_max |-> [c \in 1..NMel |-> NegInf],
     f0s |-> <<>>, energy_scaler |-> NewScaler, n_wavs |-> 0]

\* variant: the speaker field of a manifest line is taken for the name
val_prior_names_speaker(val_txt) ==
    IF val_txt = <<>> THEN <<>>
    ELSE <<{val_txt[1][i][2] : i \in DOMAIN val_txt[1]}>>

\* val_prior_names (lines 52-61): <<>> is None, <<V>> the names loaded
val_prior_names(val_txt) ==
    IF val_txt = <<>> THEN <<>>
    ELSE <<{BasenameOf(val_txt[1][i]) : i \in DOMAIN val_txt[1]}>>

\* variant: with a validation set loaded, the other records go to out
CollectMixed(a, vp, basename, r) ==
    LET routed ==
            IF vp # <<>> /\ basename \in vp[1]
            THEN [a EXCEPT !.val = Append(@, r.info)]
            ELSE [a EXCEPT !.out = Append(@, r.info)]
    IN  [routed EXCEPT
            !.max_seq_len = IF r.n_mel > @ THEN r.n_mel ELSE @,
            !.f0s = IF Len(r.f0) > 0 THEN Append(@, r.f0) ELSE @,
            !.energy_scaler = partial_fit(@, r.energy),
            !.mel_min = [c \in 1..NMel |-> NumMin(@[c], r.m_min[c])],
            !.mel_max = [c \in 1..NMel |-> NumMax(@[c], r.m_max[c])],
            !.n_wavs = @ + r.n_wav]

\* variant: the membership test of the validation set is inverted
CollectInverted(a, vp, basename, r) ==
    LET routed ==
            IF vp # <<>>
            THEN IF basename \in vp[1]
                 THEN [a EXCEPT !.train = Append(@, r.info)]
                 ELSE [a EXCEPT !.val = Append(@, r.info)]
            ELSE [a EXCEPT !.out = Append(@, r.info)]
    IN  [routed EXCEPT
            !.max_seq_len = IF r.n_mel > @ THEN r.n_mel ELSE @,
            !.f0s = IF Len(r.f0) > 0 THEN Append(@, r.f0) ELSE @,
            !.energy_scaler = partial_fit(@, r.energy),
            !.mel_min = [c \in 1..NMel |-> NumMin(@[c], r.m_min[c])],
            !.mel_max = [c \in 1..NMel |-> NumMax(@[c], r.m_max[c])],
            !.n_wavs = @ + r.n_wav]

\* lines 121-141: the loop body after a record was processed
Collect(a, vp, basename, r) ==
    LET routed ==
            IF vp # <<>>
            THEN IF basename \notin vp[1]
                 THEN [a EXCEPT !.train = Append(@, r.info)]
                 ELSE [a EXCEPT !.val = Append(@, r.info)]
            ELSE [a EXCEPT !.out = Append(@, r.info)]
    IN  [routed EXCEPT
            !.max_seq_len = IF r.n_mel > @ THEN r.n_mel ELSE @,
            !.f0s = IF Len(r.f0) > 0 THEN Append(@, r.f0) ELSE @,
            !.energy_scaler = partial_fit(@, r.energy),
            !.mel_min = [c \in 1..NMel |-> NumMin(@[c], r.m_min[c])],
            !.mel_max = [c \in 1..NMel |-> NumMax(@[c], r.m_max[c])],
            !.n_wavs = @ + r.n_wav]

RECURSIVE Voiced(_)
\* f0s[f0s != 0]
Voiced(f0) ==
    IF f0 = <<>> THEN <<>>
    ELSE (IF Head(f0).n # 0 THEN <<Head(f0)>> ELSE <<>>) \o Voiced(Tail(f0))

\* np.mean and np.std (population); nan on an empty array
Mean(v) == IF v = <<>> THEN NaN ELSE NumDiv(SeqSum(v), IntNum(Len(v)))
Std(v) ==
    IF v = <<>> THEN NaN
    ELSE NumSqrt(NumSub(NumDiv(SeqSumSq(v), IntNum(Len(v))),
                        NumMul(Mean(v), Mean(v))))

\* variant: an empty pitch collection yields default statistics
compute_f0_stats_default(f0s) ==
    IF Len(f0s) > 0
    THEN LET v == Voiced(Concat(f0s))
         IN  [err |-> "", mean |-> Mean(v), std |-> Std(v)]
    ELSE [err |-> "", mean |-> Zero, std |-> One]

\* compute_f0_stats (lines 86-92): f0_mean is bound only under the if
compute_f0_stats(f0s) ==
    IF Len(f0s) > 0
    THEN LET v == Voiced(Concat(f0s))
         IN  [err |-> "", mean |-> Mean(v), std |-> Std(v)]
    ELSE [err |-> "UnboundLocalError@92", mean |-> NaN, std |-> NaN]

\* variant: the fitted mean and std are used although normalization is off
compute_energy_stats_fitted(energy_scaler, dir) ==
    LET fit  == energy_scaler.n > 0
        mean == IF fit THEN ScalerMean(energy_scaler) ELSE Zero
        std  == IF fit THEN ScalerScale(energy_scaler) ELSE One
        res  == normalize(dir, mean, std)
    IN  [err |-> res.err, called |-> TRUE, dir |-> res.dir,
         min |-> res.min, max |-> res.max, mean |-> mean, std |-> std,
         writes |-> res.writes]

\* compute_energy_stats (lines 94-106); mean_ exists only once fitted
compute_energy_stats(energy_scaler, dir) ==
    LET unfit == cfg.energy_normalization /\ energy_scaler.n = 0
        mean  == IF cfg.energy_normalization /\ ~unfit
                 THEN ScalerMean(energy_scaler) ELSE Zero
        std   == IF cfg.energy_normalization /\ ~unfit
                 THEN ScalerScale(energy_scaler) ELSE One
        res   == normalize(dir, mean, std)
    IN  IF unfit
        THEN [err |-> "AttributeError@96", called |-> FALSE, dir |-> dir,
              min |-> NaN, max |-> NaN, mean |-> NaN, std |-> NaN,
              writes |-> [f \in DOMAIN dir |-> 0]]
        ELSE [err |-> res.err, called |-> TRUE, dir |-> res.dir,
              min |-> res.min, max |-> res.max, mean |-> mean, std |-> std,
              writes |-> res.writes]

\* random.shuffle with the permutation p
Shuffled(list, p) == [i \in 1..Len(list) |-> list[p[i]]]

\* variant: the train list keeps the records that went to val
SplitListsOverlap(a, vp, p) ==
    IF vp # <<>>
    THEN IF Len(a.out) = 0
         THEN [err |-> "", train |-> Shuffled(a.train, p), val |-> a.val,
               out |-> a.out]
         ELSE [err |-> "AssertionError@173", train |-> <<>>, val |-> <<>>,
               out |-> a.out]
    ELSE IF Len(a.train) = 0 /\ Len(a.val) = 0
         THEN LET out == Shuffled(a.out, p)
              IN  [err |-> "", train |-> out,
                   val |-> Take(out, cfg.val_size), out |-> out]
         ELSE [err |-> "AssertionError@178", train |-> <<>>, val |-> <<>>,
               out |-> a.out]

\* lines 172-182 given the permutation the shuffle applies
SplitLists(a, vp, p) ==
    IF vp # <<>>
    THEN IF Len(a.out) = 0
         THEN [err |-> "", train |-> Shuffled(a.train, p), val |-> a.val,
               out |-> a.out]
         ELSE [err |-> "AssertionError@173", train |-> <<>>, val |-> <<>>,
               out |-> a.out]
    ELSE IF Len(a.train) = 0 /\ Len(a.val) = 0
         THEN LET out == Shuffled(a.out, p)
              IN  [err |-> "", train |-> Drop(out, cfg.val_size),
                   val |-> Take(out, cfg.val_size), out |-> out]
         ELSE [err |-> "AssertionError@178", train |-> <<>>, val |-> <<>>,
               out |-> a.out]
\* the list that is shuffled
ShuffledList(a, vp) == IF vp # <<>> THEN a.train ELSE a.out

\* ------------------------------------------------------------ initial state
Utt(b, phone, nsamp, voiced) ==
    [basename |-> b, phone |-> phone, nsamp |-> nsamp, voiced |-> voiced]

\* The utterances of the corpora that are run as a whole: two ordinary ones
\* (one voiced, one unvoiced), one without phonemes and a single frame, and
\* one whose trimmed range is empty.
Pool ==
    {Utt("a", <<"AH">>, 2 * Hop, TRUE),
     Utt("b", <<",">>, 2 * Hop + 1, FALSE),
     Utt("c", <<>>, Hop, TRUE),
     Utt("d", <<"AH">>, 0, TRUE)}

Corpora ==
    UNION {{c \in [1..k -> Pool] :
              \A i, j \in 1..k : c[i].basename = c[j].basename => i = j} :
           k \in 0..MaxRecords}

\* the utterances of the one-record corpora
PhoneSeqs == UNION {[1..k -> Tokens] : k \in 0..MaxPhones}
Utterances ==
    {Utt("a", ph, n, v) : ph \in PhoneSeqs, n \in 0..MaxSamples,
                          v \in BOOLEAN}

EmptyDisk ==
    [text |-> <<>>, wav |-> <<>>, mel |-> <<>>, energy |-> <<>>, f0 |-> <<>>,
     attn_prior |-> <<>>, val_txt |-> <<>>, train_txt |-> <<>>,
     stats |-> <<>>]

IdlePrior == [P |-> 0, M |-> 0, s |-> 1, i |-> 0, rows |-> <<>>, pc |-> "off"]

Configs(sizes) ==
    [val_size : sizes, energy_normalization : BOOLEAN,
     extraMel : 0..1, extraF0 : 0..1, scale : {1}]

InitRun ==
    /\ disk = EmptyDisk
    /\ run = 1
    /\ pc = "init"
    /\ err = ""
    /\ val_prior = <<>>
    /\ idx = 1
    /\ loc = NewLoc
    /\ acc = NewAcc
    /\ rng = <<>>
    /\ ret = <<>>
    /\ norm = <<>>
    /\ hist = <<>>
    /\ killed = <<>>

\* a corpus of up to MaxRecords records over an empty output directory
Init ==
    /\ corpus \in Corpora
    /\ cfg \in Configs(0..MaxRecords)
    /\ InitRun
    /\ bb = IdlePrior

\* one utterance, anything the collaborators may return for it
InitUtt ==
    /\ corpus \in {<<u>> : u \in Utterances}
    /\ cfg \in Configs({0})
    /\ InitRun
    /\ bb = IdlePrior

\* The val.txt the output directory may hold before the first run: none,
\* an empty one, or one naming a record of the pool or a record that is in
\* no corpus.
Foreign == Utt("z", <<"AH">>, 2 * Hop, TRUE)
ValFiles ==
    {<<>>, << <<>> >>} \cup {<< <<Info(u)>> >> : u \in Pool \cup {Foreign}}

\* a corpus over an output directory that may already hold a val.txt
InitVal ==
    /\ corpus \in Corpora
    /\ cfg \in [val_size : 0..MaxRecords, energy_normalization : BOOLEAN,
                 extraMel : {0}, extraF0 : {0}, scale : {1}]
    /\ \E v \in ValFiles : disk = [EmptyDisk EXCEPT !.val_txt = v]
    /\ run = 1
    /\ pc = "init"
    /\ err = ""
    /\ val_prior = <<>>
    /\ idx = 1
    /\ loc = NewLoc
    /\ acc = NewAcc
    /\ rng = <<>>
    /\ ret = <<>>
    /\ norm = <<>>
    /\ hist = <<>>
    /\ killed = <<>>
    /\ bb = IdlePrior

\* ------------------------------------------------------------------ actions
\* __init__ (line 50) and the head of build_from_path (lines 64-80)
Start ==
    /\ pc = "init"
    /\ val_prior' = val_prior_names(disk.val_txt)
    /\ acc' = NewAcc
    /\ idx' = 1
    /\ loc' = NewLoc
    /\ pc' = IF corpus = <<>> THEN "stats" ELSE "scan"
    /\ UNCHANGED <<corpus, cfg, disk, run, err, rng, ret, norm, hist,
                   killed, bb>>

\* what the loop does with the state process_utterance left (lines 117-141)
AfterUtterance(s) ==
    /\ disk' = s.disk
    /\ loc' = s.loc
    /\ IF s.err # ""
       THEN /\ pc' = "error"
            /\ err' = s.err
            /\ UNCHANGED <<acc, idx, ret>>
       ELSE LET r == ReturnValue(s, corpus[idx])
            IN  /\ ret' = <<r>>
                /\ acc' = Collect(acc, val_prior, corpus[idx].basename, r)
                /\ idx' = idx + 1
                /\ pc' = IF idx = Len(corpus) THEN "stats" ELSE "scan"
                /\ err' = ""

\* one iteration of the loop of lines 110-141
ScanRecord ==
    /\ pc = "scan"
    /\ AfterUtterance(process_utterance(disk, corpus[idx]))
    /\ UNCHANGED <<corpus, cfg, run, val_prior, rng, norm, hist, killed, bb>>

\* process_utterance stage by stage, for the runs that can be interrupted
Cur(l) == [disk |-> disk, loc |-> l, err |-> ""]
StepTo(s, next) ==
    /\ disk' = s.disk
    /\ loc' = s.loc
    /\ err' = s.err
    /\ pc' = IF s.err # "" THEN "error" ELSE next
    /\ UNCHANGED <<corpus, cfg, run, val_prior, idx, acc, rng, ret, norm,
                   hist, killed, bb>>

StepText ==
    /\ pc = "scan"
    /\ StepTo(TextStage(Cur(NewLoc), corpus[idx]), "wav")
StepWav ==
    /\ pc = "wav"
    /\ StepTo(WavStage(Cur(loc), corpus[idx]), "mel")
StepMel ==
    /\ pc = "mel"
    /\ StepTo(MelStage(Cur(loc), corpus[idx]), "energy")
StepEnergy ==
    /\ pc = "energy"
    /\ StepTo(EnergyStage(Cur(loc), corpus[idx]), "f0")
StepF0 ==
    /\ pc = "f0"
    /\ StepTo(F0Stage(Cur(loc), corpus[idx]), "prior")
StepPrior ==
    /\ pc = "prior"
    /\ StepTo(PriorStage(Cur(loc), corpus[idx]), "ret")
StepReturn ==
    /\ pc = "ret"
    /\ AfterUtterance(ReturnStage(Cur(loc), corpus[idx]))
    /\ UNCHANGED <<corpus, cfg, run, val_prior, rng, norm, hist, killed, bb>>

\* lines 143-170: the statistics, the energy pass, speakers.json, stats.json
ComputeStats ==
    /\ pc = "stats"
    /\ LET f0s_stats    == compute_f0_stats(acc.f0s)
           energy_stats == compute_energy_stats(acc.energy_scaler,
                                                disk.energy)
           stats == [f0 |-> <<f0s_stats.mean, f0s_stats.std>>,
                     energy |-> <<energy_stats.min, energy_stats.max,
                                  energy_stats.mean, energy_stats.std>>,
                     spec_min |-> acc.mel_min,
                     spec_max |-> acc.mel_max,
                     max_seq_len |-> acc.max_seq_len]
       IN  IF f0s_stats.err # ""
           THEN /\ pc' = "error"
                /\ err' = f0s_stats.err
                /\ UNCHANGED <<disk, norm>>
           ELSE /\ norm' = IF energy_stats.called
                           THEN <<[before |-> disk.energy,
                                   mean   |-> energy_stats.mean,
                                   std    |-> energy_stats.std,
                                   min    |-> energy_stats.min,
                                   max    |-> energy_stats.max,
                                   after  |-> energy_stats.dir,
                                   writes |-> energy_stats.writes,
                                   err    |-> energy_stats.err]>>
                           ELSE norm
                /\ IF energy_stats.err # ""
                   THEN /\ pc' = "error"
                        /\ err' = energy_stats.err
                        /\ disk' = [disk EXCEPT !.energy = energy_stats.dir]
                   ELSE /\ pc' = "split"
                        /\ err' = ""
                        /\ disk' = [disk EXCEPT !.energy = energy_stats.dir,
                                                !.stats = <<stats>>]
    /\ UNCHANGED <<corpus, cfg, run, val_prior, idx, loc, acc, rng, ret,
                   hist, killed, bb>>

\* lines 172-192: the assertion, the shuffle, the split and the manifests.
\* The generator was seeded in __init__ and is used here for the first time,
\* so a list length always meets the same permutation.
Split ==
    /\ pc = "split"
    /\ \E p \in Perms(Len(ShuffledList(acc, val_prior))) :
         LET n == Len(p)
             lists == SplitLists(acc, val_prior, p)
         IN  /\ n \in DOMAIN rng => p = rng[n]
             /\ IF lists.err # ""
                THEN /\ pc' = "error"
                     /\ err' = lists.err
                     /\ UNCHANGED <<disk, acc, rng, hist>>
                ELSE /\ pc' = "done"
                     /\ err' = ""
                     /\ rng' = (n :> p) @@ rng
                     /\ acc' = [acc EXCEPT !.train = lists.train,
                                           !.val = lists.val,
                                           !.out = lists.out]
                     /\ disk' = [disk EXCEPT !.train_txt = <<lists.train>>,
                                             !.val_txt = <<lists.val>>]
                     /\ hist' = Append(hist, [train |-> lists.train,
                                              val   |-> lists.val,
                                              stats |-> disk.stats[1],
                                              mode  |-> val_prior])
    /\ UNCHANGED <<corpus, cfg, run, val_prior, idx, loc, ret, norm,
                   killed, bb>>

\* the process is killed inside process_utterance
InsideUtterance == {"wav", "mel", "energy", "f0", "prior", "ret"}
Kill ==
    /\ pc \in InsideUtterance
    /\ run < MaxRuns
    /\ pc' = "killed"
    /\ killed' = Append(killed, pc)
    /\ UNCHANGED <<corpus, cfg, disk, run, err, val_prior, idx, loc, acc,
                   rng, ret, norm, hist, bb>>

\* the program is started again over the same corpus and output directory
Restart ==
    /\ pc \in {"done", "error", "killed"}
    /\ run < MaxRuns
    /\ run' = run + 1
    /\ pc' = "init"
    /\ err' = ""
    /\ ret' = <<>>
    /\ UNCHANGED <<corpus, cfg, disk, val_prior, idx, loc, acc, rng, norm,
                   hist, killed, bb>>

Next == Start \/ ScanRecord \/ ComputeStats \/ Split \/ Restart
Spec == Init /\ [][Next]_vars

SpecVal == InitVal /\ [][Next]_vars

NextUtt ==
    \/ Start \/ StepText \/ StepWav \/ StepMel \/ StepEnergy \/ StepF0
    \/ StepPrior \/ StepReturn \/ ComputeStats \/ Split \/ Kill \/ Restart
SpecUtt == InitUtt /\ [][NextUtt]_vars

\* ------------------------------ the prior generator called on its own
\* the arguments of one call, at the head of the loop of line 217
PriorCalls ==
    [P : 0..MaxP, M : 0..MaxM, s : 1..MaxScale, i : {1}, rows : {<<>>},
     pc : {"loop"}]

InitPrior ==
    /\ corpus = <<>>
    /\ cfg = [val_size |-> 0, energy_normalization |-> FALSE,
              extraMel |-> 0, extraF0 |-> 0, scale |-> 1]
    /\ InitRun
    /\ bb \in PriorCalls

\* one iteration of the loop of lines 217-221
PriorLoop ==
    /\ bb.pc = "loop"
    /\ bb.i <= bb.M
    /\ bb' = [bb EXCEPT !.rows = Append(@, PriorRow(bb.P, bb.M, bb.s, bb.i)),
                        !.i = @ + 1]
    /\ UNCHANGED <<corpus, cfg, disk, run, pc, err, val_prior, idx, loc, acc,
                   rng, ret, norm, hist, killed>>

\* line 222
PriorReturn ==
    /\ bb.pc = "loop"
    /\ bb.i > bb.M
    /\ bb' = [bb EXCEPT !.pc = "done"]
    /\ UNCHANGED <<corpus, cfg, disk, run, pc, err, val_prior, idx, loc, acc,
                   rng, ret, norm, hist, killed>>

NextPrior == PriorLoop \/ PriorReturn
SpecPrior == InitPrior /\ [][NextPrior]_vars

\* ------------------------------------- remove_outlier called on its own
\* the energy arrays it is given
EnergyValues == {1, 2, 3, 4, 100}
EnergyArrays ==
    UNION {[1..k -> {IntNum(x) : x \in EnergyValues}] : k \in 1..MaxEnergy}

InitOutlier ==
    /\ corpus = <<>>
    /\ cfg = [val_size |-> 0, energy_normalization |-> FALSE,
              extraMel |-> 0, extraF0 |-> 0, scale |-> 1]
    /\ disk = EmptyDisk
    /\ run = 1
    /\ pc = "outlier"
    /\ err = ""
    /\ val_prior = <<>>
    /\ idx = 1
    /\ \E e \in EnergyArrays : loc = [NewLoc EXCEPT !.energy = e]
    /\ acc = NewAcc
    /\ rng = <<>>
    /\ ret = <<>>
    /\ norm = <<>>
    /\ hist = <<>>
    /\ killed = <<>>
    /\ bb = IdlePrior

\* line 306: the energy sample of the returned tuple
OutlierCall ==
    /\ pc = "outlier"
    /\ ret' = <<[energy |-> remove_outlier(loc.energy)]>>
    /\ pc' = "fit"
    /\ UNCHANGED <<corpus, cfg, disk, run, err, val_prior, idx, loc, acc,
                   rng, norm, hist, killed, bb>>

\* line 136: the sample is given to the energy accumulator
OutlierFit ==
    /\ pc = "fit"
    /\ acc' = [acc EXCEPT !.energy_scaler = partial_fit(@, ret[1].energy)]
    /\ pc' = "fitted"
    /\ UNCHANGED <<corpus, cfg, disk, run, err, val_prior, idx, loc, rng,
                   ret, norm, hist, killed, bb>>

NextOutlier == OutlierCall \/ OutlierFit
SpecOutlier == InitOutlier /\ [][NextOutlier]_vars

\* ------------------------------------------------------------------ claims
\* the basename of the record the last returned tuple is about
RetName == ret[1].info[1]
\* int((hi - lo) / hop_length) of a record: its duration in frames
DurationFrames(rec) == rec.nsamp \div Hop
RecordOf(b) == CHOOSE r \in Range(corpus) : r.basename = b
\* the exceptions process_utterance can raise
UtteranceErrors ==
    {"ValueError@254", "UnboundLocalError@270", "FileNotFoundError@280",
     "UnboundLocalError@286", "ValueError@309"}

\* C1: when a run completes and the program is run again over the same
\* corpus and the output directory the first run left, the second run
\* writes the same train manifest, val manifest and stats, line order
\* included.
C1_Idempotent ==
    \A k \in 1..(Len(hist) - 1) :
        /\ hist[k + 1].train = hist[k].train
        /\ hist[k + 1].val = hist[k].val
        /\ hist[k + 1].stats = hist[k].stats

\* C2: after a run was interrupted inside process_utterance, a restarted run
\* completes process_utterance for that utterance without raising, whatever
\* prefix of the artifact writes the interruption left.  (The utterance is
\* one an uninterrupted run processes: it has at least one frame.)
C2_Resumable ==
    (killed # <<>> /\ DurationFrames(corpus[idx]) >= 1)
        => ~(pc = "error" /\ err \in UtteranceErrors)

\* C3: for every utterance processed successfully the persisted prior has
\* as many rows as the persisted mel has frames and as many columns as the
\* persisted text has ids.
C3_PriorShape ==
    ret # <<>> =>
        /\ Len(disk.attn_prior[RetName]) = Len(disk.mel[RetName])
        /\ \A i \in DOMAIN disk.attn_prior[RetName] :
              Len(disk.attn_prior[RetName][i]) = Len(disk.text[RetName])

\* C4: for every utterance processed successfully (the extractors returning
\* duration_frames or one frame more), the persisted energy, f0 and mel all
\* have duration_frames frames, and so has the frame count returned.
C4_FrameCounts ==
    ret # <<>> =>
        LET d == DurationFrames(RecordOf(RetName))
        IN  /\ Len(disk.energy[RetName]) = d
            /\ Len(disk.f0[RetName]) = d
            /\ Len(disk.mel[RetName]) = d
            /\ ret[1].n_mel = d

\* an utterance was processed whose extractor outputs had to be cut
C4_Witness ==
    /\ ret # <<>>
    /\ cfg.extraMel = 1 /\ cfg.extraF0 = 1
    /\ ret[1].n_mel = 2
    /\ Len(disk.energy[RetName]) = 2

\* C5: every row of the matrix the prior generator returns for P >= 1 and
\* M >= 1 has non-negative entries that sum to 1 within 1e-6.
C5_RowsSumToOne ==
    (bb.pc = "done" /\ bb.P >= 1 /\ bb.M >= 1) =>
        \A i \in DOMAIN bb.rows :
            /\ \A x \in DOMAIN bb.rows[i] : bb.rows[i][x].n >= 0
            /\ LET off == NumSub(SeqSum(bb.rows[i]), One)
               IN  off.n = 0 \/ off.d \div Abs(off.n) >= 1000000

\* C6: a record without phonemes or with an empty trimmed range is skipped:
\* the run does not end on it, and it reaches neither train nor val.
Degenerate(rec) == rec.phone = <<>> \/ rec.nsamp = 0
C6_SkipSemantics ==
    \A i \in DOMAIN corpus :
        Degenerate(corpus[i]) =>
            /\ ~(pc = "error" /\ idx = i /\ err \in UtteranceErrors)
            /\ Info(corpus[i]) \notin
                   Range(acc.out) \cup Range(acc.train) \cup Range(acc.val)

\* C7: flat-split mode with 0 <= val_size <= N: the val manifest holds
\* val_size records, the train manifest N - val_size, they are disjoint and
\* together they are the N processed records.
C7_FlatSplit ==
    (pc = "done" /\ val_prior = <<>> /\ cfg.val_size <= Len(acc.out)) =>
        LET train == disk.train_txt[1]
            val   == disk.val_txt[1]
        IN  /\ Len(val) = cfg.val_size
            /\ Len(train) = Len(acc.out) - cfg.val_size
            /\ Range(train) \cap Range(val) = {}
            /\ Range(train) \cup Range(val) = Range(acc.out)
            /\ Range(acc.out) = {Info(r) : r \in Range(corpus)}
            /\ Cardinality(Range(acc.out)) = Len(corpus)

\* two records were split one to val, one to train
C7_Witness ==
    /\ pc = "done" /\ val_prior = <<>>
    /\ Len(acc.out) = 2 /\ cfg.val_size = 1
    /\ Len(disk.val_txt[1]) = 1 /\ Len(disk.train_txt[1]) = 1

\* C8: predefined-validation mode: val holds exactly the processed records
\* whose basename is in the loaded set, train exactly the others, no record
\* twice.
C8_PredefinedSplit ==
    (pc = "done" /\ val_prior # <<>>) =>
        LET train == disk.train_txt[1]
            val   == disk.val_txt[1]
            inV   == {r \in Range(corpus) : r.basename \in val_prior[1]}
        IN  /\ Range(val) = {Info(r) : r \in inV}
            /\ Range(train) = {Info(r) : r \in Range(corpus) \ inV}
            /\ Len(val) = Cardinality(inV)
            /\ Len(train) = Cardinality(Range(corpus) \ inV)

\* a loaded validation set put one record in val and one in train
C8_Witness ==
    /\ pc = "done" /\ val_prior # <<>>
    /\ Len(disk.val_txt[1]) = 1 /\ Len(disk.train_txt[1]) = 1

\* C9: after normalize returns, every element of every file it found is
\* (the element before - mean) / std, each file was written once, and the
\* returned min and max are those of all transformed elements.
ValuesIn(dir) == UNION {Range(dir[f]) : f \in DOMAIN dir}
C9_Normalize ==
    (norm # <<>> /\ norm[1].err = "") =>
        LET c == norm[1]
        IN  /\ DOMAIN c.after = DOMAIN c.before
            /\ \A f \in DOMAIN c.before :
                  /\ Len(c.after[f]) = Len(c.before[f])
                  /\ c.writes[f] = 1
                  /\ \A j \in DOMAIN c.before[f] :
                        NumAdd(NumMul(c.after[f][j], c.std), c.mean)
                            = c.before[f][j]
            /\ ValuesIn(c.after) # {} =>
                  /\ c.min \in ValuesIn(c.after)
                  /\ c.max \in ValuesIn(c.after)
                  /\ \A e \in ValuesIn(c.after) :
                        ~NumLess(e, c.min) /\ ~NumLess(c.max, e)

\* the pass ran over two files with a fitted mean and a std other than 1
C9_Witness ==
    /\ norm # <<>> /\ norm[1].err = ""
    /\ Cardinality(DOMAIN norm[1].before) = 2
    /\ norm[1].mean # Zero /\ norm[1].std # One
    /\ norm[1].after # norm[1].before

\* C10: once the scan is over, the manifests are written only if exactly one
\* of the flat list and the predefined-mode lists holds records; if both or
\* neither do, the run ends in an uncaught exception and writes no manifest.
ExactlyOneMode ==
    (Len(acc.out) > 0) # (Len(acc.train) > 0 \/ Len(acc.val) > 0)
FinalizeStep ==
    pc \in {"stats", "split"} =>
        /\ (pc' = "done" => ExactlyOneMode)
        /\ (~ExactlyOneMode =>
               /\ pc' = "error"
               /\ disk'.train_txt = disk.train_txt
               /\ disk'.val_txt = disk.val_txt)
C10_SplitModes == [][FinalizeStep]_vars

\* a scan that collected nothing ended fatally with no manifest written
C10_Witness ==
    /\ pc = "error" /\ err = "UnboundLocalError@92"
    /\ Len(acc.out) = 0 /\ Len(acc.train) = 0 /\ Len(acc.val) = 0
    /\ disk.train_txt = <<>> /\ disk.val_txt = <<>>

\* C11: when no processed utterance contributed a nonzero f0 value, the run
\* ends fatally before stats.json is written: stats.json, once written,
\* holds an f0 mean and std computed from at least one voiced value.
C11_NoVoicedFatal ==
    pc = "split" =>
        /\ Voiced(Concat(acc.f0s)) # <<>>
        /\ ~IsNaN(disk.stats[1].f0[1])
        /\ ~IsNaN(disk.stats[1].f0[2])

\* the number of runs that completed before the one in progress
CompletedBefore == Len(hist) - (IF pc = "done" THEN 1 ELSE 0)

\* C12: in a run over an output directory in which an earlier run completed,
\* process_utterance invokes none of the gated collaborators and saves no
\* artifact, for every record: each value is only loaded.
C12_ZeroRecomputation ==
    (ret # <<>> /\ CompletedBefore >= 1) =>
        /\ loc.calls = {}
        /\ loc.saved = {}
        /\ loc.text = disk.text[RetName]
        /\ loc.wav = disk.wav[RetName]
        /\ loc.mel = ToChannelMajor(disk.mel[RetName])
        /\ loc.f0 = disk.f0[RetName]
        /\ loc.attn_prior = disk.attn_prior[RetName]

\* the second run has processed the last of two records from the cache
C12_Witness ==
    /\ run = 2 /\ Len(hist) = 1 /\ pc = "stats"
    /\ Len(corpus) = 2 /\ ret # <<>>
    /\ RetName = corpus[2].basename
    /\ loc.calls = {}

\* the energy the extractor produces for a record, cut to its duration
RawEnergy(rec) == Take(TorchSTFT(Wave(rec)).energy, DurationFrames(rec))

\* C13: in every run each energy file the re-normalization pass reloads
\* holds the raw energy of its utterance, and so does the energy that
\* process_utterance hands on, cache hit or miss.
C13_RawEnergyReloaded ==
    /\ norm # <<>> =>
          \A f \in DOMAIN norm[1].before :
              norm[1].before[f] = RawEnergy(RecordOf(f))
    /\ (ret # <<>> /\ pc \in {"scan", "stats", "split", "done"}) =>
          loc.energy = RawEnergy(RecordOf(RetName))

\* x passes the IQR rule of the values v
PassesIQR(x, v) ==
    LET sorted == SortNum(v)
        p25    == Percentile(sorted, 1)
        p75    == Percentile(sorted, 3)
        iqr15  == NumMul(Rat(3, 2), NumSub(p75, p25))
    IN  NumLess(NumSub(p25, iqr15), x) /\ NumLess(x, NumAdd(p75, iqr15))

\* C14: when process_utterance has returned, the energy file holds what was
\* written or loaded, all duration_frames values of it, and the returned
\* sample is the subsequence of the file's values that pass the IQR rule.
C14_OutlierRemovalLocal ==
    (ret # <<>> /\ pc \in {"scan", "stats"}) =>
        LET file == disk.energy[RetName]
            PassesFile(x) == PassesIQR(x, file)
        IN  /\ file = loc.energy
            /\ Len(file) = DurationFrames(RecordOf(RetName))
            /\ ret[1].energy = SelectSeq(file, PassesFile)

\* the rule removed a value from the returned sample of a cache-hit run
C14_Witness ==
    /\ ret # <<>> /\ pc = "stats" /\ run = 2
    /\ "energy" \notin loc.saved
    /\ Len(disk.energy[RetName]) = 1
    /\ ret[1].energy = <<>>

\* an array of integers as energy values
Ints(v) == [j \in 1..Len(v) |-> IntNum(v[j])]

\* C15: remove_outlier returns, in their order, exactly the elements that lie
\* strictly between p25 - 1.5 iqr and p75 + 1.5 iqr: of [1,2,3,4,100] it
\* drops 100, of a constant array it returns nothing, without error, and
\* the energy accumulator skips an empty sample.
C15_RemoveOutlier ==
    pc \in {"fit", "fitted"} =>
        LET v == loc.energy
            PassesV(x) == PassesIQR(x, v)
        IN  /\ ret[1].energy = SelectSeq(v, PassesV)
            /\ v = Ints(<<1, 2, 3, 4, 100>>) =>
                  ret[1].energy = Ints(<<1, 2, 3, 4>>)
            /\ (\A j \in DOMAIN v : v[j] = v[1]) => ret[1].energy = <<>>
            /\ err = ""
            /\ (pc = "fitted" /\ ret[1].energy = <<>>) =>
                  acc.energy_scaler = NewScaler
            /\ (pc = "fitted" /\ ret[1].energy # <<>>) =>
                  acc.energy_scaler.n = Len(ret[1].energy)

\* the rule dropped 100 from [1,2,3,4,100] and the rest was accumulated
C15_Witness ==
    /\ pc = "fitted"
    /\ loc.energy = Ints(<<1, 2, 3, 4, 100>>)
    /\ Len(ret[1].energy) = 4
    /\ acc.energy_scaler.n = 4

\* C16: with energy normalization off the stats hold energy mean 0 and
\* std 1 whatever the accumulator was fed, the pass leaves every energy
\* file as it was, raw, and the stats' energy min and max are the minimum
\* and maximum of the raw values in the files.
C16_NormalizationOff ==
    (pc \in {"split", "done"} /\ ~cfg.energy_normalization) =>
        LET energy == disk.stats[1].energy
            raw    == ValuesIn(disk.energy)
        IN  /\ energy[3] = Zero
            /\ energy[4] = One
            /\ norm[1].after = norm[1].before
            /\ disk.energy = norm[1].before
            /\ \A f \in DOMAIN disk.energy :
                  disk.energy[f] = RawEnergy(RecordOf(f))
            /\ energy[1] \in raw /\ energy[2] \in raw
            /\ \A e \in raw : ~NumLess(e, energy[1]) /\ ~NumLess(energy[2], e)

\* a run with normalization off completed with an accumulator fed nothing
C16_Witness ==
    /\ pc = "done" /\ ~cfg.energy_normalization
    /\ Len(corpus) = 1
    /\ acc.energy_scaler = NewScaler
    /\ disk.stats[1].energy[3] = Zero

\* the index of the largest entry of a row, the smallest one on ties
Mode(row) ==
    CHOOSE k \in DOMAIN row :
        /\ \A x \in DOMAIN row : ~NumLess(row[k], row[x])
        /\ \A x \in 1..(k - 1) : NumLess(row[x], row[k])

\* C17: in the matrix the prior generator returns, the mode of a row is
\* never after the mode of a later row.
C17_ModeMonotone ==
    (bb.pc = "done" /\ bb.P >= 1) =>
        \A i, j \in DOMAIN bb.rows :
            i < j => Mode(bb.rows[i]) <= Mode(bb.rows[j])

\* for P = 3, M = 2, s = 1 the mode moves from the first to the last column
C17_Witness ==
    /\ bb.pc = "done" /\ bb.P = 3 /\ bb.M = 2 /\ bb.s = 1
    /\ Mode(bb.rows[1]) = 1
    /\ Mode(bb.rows[2]) = 3

\* the basenames of a manifest
Names(manifest) == {BasenameOf(manifest[i]) : i \in DOMAIN manifest}

\* C18: every completed run after the first starts with a loaded validation
\* set and writes a val manifest and a train manifest with the same
\* basenames as the completed run before it.
C18_ValStable ==
    \A k \in 2..Len(hist) :
        /\ hist[k].mode # <<>>
        /\ hist[k].mode[1] = Names(hist[k - 1].val)
        /\ Names(hist[k].val) = Names(hist[k - 1].val)
        /\ Names(hist[k].train) = Names(hist[k - 1].train)

\* a second run completed after a first that put a record on each side
C18_Witness ==
    /\ Len(hist) = 2
    /\ hist[1].mode = <<>>
    /\ hist[1].val # <<>> /\ hist[1].train # <<>>
    /\ hist[2].val # <<>> /\ hist[2].train # <<>>

\* C19: while build_from_path scans and up to its assertions, out and
\* train/val are never nonempty together: records go to out only without a
\* loaded validation set and to train/val only with one, so neither
\* assertion fails, whatever the corpus, val.txt and val_size.
C19_AssertionsHold ==
    /\ err \notin {"AssertionError@173", "AssertionError@178"}
    /\ pc \in {"scan", "stats", "split"} =>
          /\ ~(Len(acc.out) > 0 /\ (Len(acc.train) > 0 \/ Len(acc.val) > 0))
          /\ val_prior = <<>> => (Len(acc.train) = 0 /\ Len(acc.val) = 0)
          /\ val_prior # <<>> => Len(acc.out) = 0

\* a first run over a directory that held a val.txt reached the assertion
\* with a record in train and a record in val
C19_Witness ==
    /\ run = 1 /\ pc = "split" /\ val_prior # <<>>
    /\ Len(acc.train) = 1 /\ Len(acc.val) = 1 /\ Len(acc.out) = 0
====
